---------------------------- MODULE Spec2Model ----------------------------
(***************************************************************************)
(* Model of textext/gui.py: the TexText dialog in its two back ends,       *)
(* TexTextGuiTK and TexTextGuiGTK, over their common base TexTextGuiBase.  *)
(* One behaviour of the model is one dialog session: construction, show,   *)
(* the handlers run by the event loop, and the end of the loop.            *)
(***************************************************************************)
EXTENDS Integers, Sequences, FiniteSets, TLC

(***************************************************************************)
(* Bounds of the model.                                                    *)
(***************************************************************************)
\* longest content of the Tk scale field
MaxLen == 3
\* most handler runs in one session
MaxEvents == 3
\* most runs of preference callbacks in one session
MaxPrefEvents == 2

(***************************************************************************)
(* Module constants (gui.py:28-30) and class constants (gui.py:91-108).    *)
(***************************************************************************)
GTKSOURCEVIEW == "GTK Source View"
GTK == "GTK"
TK == "TK"

DEFAULT_WORDWRAP == FALSE
DEFAULT_PREVIEW_WHITE_BACKGROUND == FALSE

TEX_COMMANDS == <<"pdflatex", "lualatex", "xelatex">>
FONT_SIZE == <<11, 12, 14, 16>>
NEW_NODE_CONTENT == <<"Empty", "InlineMath", "DisplayMath">>
CLOSE_SHORTCUT == <<"Escape", "CtrlQ", "None">>
ALIGNMENT_LABELS == <<"top left", "top center", "top right",
                      "middle left", "middle center", "middle right",
                      "bottom left", "bottom center", "bottom right">>

\* x in list
InList(x, list) == \E i \in 1..Len(list) : list[i] = x

\* list.index(x), 0-based, for an x in the list (it raises ValueError for
\* any other x)
ListIndex(list, x) ==
  (CHOOSE i \in 1..Len(list) :
     list[i] = x /\ \A j \in 1..(i - 1) : list[j] # x) - 1

(***************************************************************************)
(* Floating-point values.  A value is <<m, e>>, standing for m * 10^e,     *)
(* with m not divisible by 10 unless the value is zero, which is <<0, 0>>. *)
(* Within the lengths modelled, two decimal numerals denote the same       *)
(* double exactly when they normalise to the same pair.                    *)
(***************************************************************************)
RECURSIVE Normalise(_, _)
Normalise(m, e) ==
  IF m = 0 THEN <<0, 0>>
  ELSE IF m % 10 = 0 THEN Normalise(m \div 10, e + 1)
  ELSE <<m, e>>

Digits == {"0", "1"}
\* the characters that can be typed into the scale field
Chars == Digits \cup {".", "-", "e"}

DigitValue(c) == IF c = "1" THEN 1 ELSE 0

AllDigits(s) == \A i \in 1..Len(s) : s[i] \in Digits

RECURSIVE DigitsValue(_)
DigitsValue(s) ==
  IF s = <<>> THEN 0
  ELSE 10 * DigitsValue(SubSeq(s, 1, Len(s) - 1)) + DigitValue(s[Len(s)])

\* position of the first c in s, 0 when there is none
FirstIndex(s, c) ==
  IF \E i \in 1..Len(s) : s[i] = c
  THEN CHOOSE i \in 1..Len(s) : s[i] = c /\ \A j \in 1..(i - 1) : s[j] # c
  ELSE 0

\* an exponent part: an optional sign and at least one digit
ExponentOk(s) ==
  LET body == IF s # <<>> /\ s[1] = "-" THEN Tail(s) ELSE s
  IN  body # <<>> /\ AllDigits(body)

ExponentValue(s) ==
  IF s[1] = "-" THEN 0 - DigitsValue(Tail(s)) ELSE DigitsValue(s)

\* a mantissa: digits with at most one point and at least one digit
MantissaOk(s) ==
  LET p == FirstIndex(s, ".")
      int == IF p = 0 THEN s ELSE SubSeq(s, 1, p - 1)
      frac == IF p = 0 THEN <<>> ELSE SubSeq(s, p + 1, Len(s))
  IN  AllDigits(int) /\ AllDigits(frac) /\ Len(int) + Len(frac) > 0

\* float(s) of Python, on strings over Chars: the value, or "ValueError"
PyFloat(s) ==
  LET neg == s # <<>> /\ s[1] = "-"
      unsigned == IF neg THEN Tail(s) ELSE s
      x == FirstIndex(unsigned, "e")
      mant == IF x = 0 THEN unsigned ELSE SubSeq(unsigned, 1, x - 1)
      expo == IF x = 0 THEN <<>> ELSE SubSeq(unsigned, x + 1, Len(unsigned))
      p == FirstIndex(mant, ".")
      int == IF p = 0 THEN mant ELSE SubSeq(mant, 1, p - 1)
      frac == IF p = 0 THEN <<>> ELSE SubSeq(mant, p + 1, Len(mant))
      m == DigitsValue(int \o frac)
      e == (IF x = 0 THEN 0 ELSE ExponentValue(expo)) - Len(frac)
  IN  IF MantissaOk(mant) /\ (x = 0 \/ ExponentOk(expo))
      THEN Normalise(IF neg THEN 0 - m ELSE m, e)
      ELSE "ValueError"

RECURSIVE NatDigits(_)
\* the decimal numeral of a natural number
NatDigits(n) ==
  IF n < 10 THEN <<IF n = 1 THEN "1" ELSE "0">>
  ELSE NatDigits(n \div 10) \o NatDigits(n % 10)

RECURSIVE Zeros(_)
Zeros(n) == IF n <= 0 THEN <<>> ELSE <<"0">> \o Zeros(n - 1)

\* the string a float is inserted as into a Tk widget: its shortest repr,
\* in positional notation (the values modelled need no exponent)
FloatStr(v) ==
  LET m == IF v[1] < 0 THEN 0 - v[1] ELSE v[1]
      sign == IF v[1] < 0 THEN <<"-">> ELSE <<>>
      ds == NatDigits(m)
  IN  IF v[2] >= 0
      THEN sign \o ds \o Zeros(v[2]) \o <<".", "0">>
      ELSE IF Len(ds) > 0 - v[2]
      THEN sign \o SubSeq(ds, 1, Len(ds) + v[2]) \o <<".">>
                \o SubSeq(ds, Len(ds) + v[2] + 1, Len(ds))
      ELSE sign \o <<"0", ".">> \o Zeros((0 - v[2]) - Len(ds)) \o ds


(***************************************************************************)
(* Python dicts (the configuration store and its "gui" section) are        *)
(* functions on the set of their keys.                                     *)
(***************************************************************************)
EmptyDict == [k \in {} |-> FALSE]

has_key(d, k) == k \in DOMAIN d

\* d.get(k, default)
get(d, k, default) == IF k \in DOMAIN d THEN d[k] ELSE default

\* d[k] = v
DictSet(d, k, v) == [x \in DOMAIN d \cup {k} |-> IF x = k THEN v ELSE d[x]]

(***************************************************************************)
(* The inputs of a session.                                                *)
(***************************************************************************)
Toolkits == {GTKSOURCEVIEW, GTK, TK}

\* node metadata handed to the constructor; "center" and "latex" are values
\* outside ALIGNMENT_LABELS and TEX_COMMANDS
Nodes ==
  [text : {"", "x"},
   scale_factor : {<<1, -1>>},
   alignment : {"middle center", "center"},
   preamble : {"p.tex"},
   stroke_to_path : {FALSE},
   tex_command : {"xelatex", "latex"}]

\* configuration stores handed to the constructor
Configs ==
  {EmptyDict,
   [gui |-> EmptyDict, scale |-> <<11, -1>>],
   [gui |-> [word_wrap |-> TRUE]]}

\* what the convert callback does when it is called: it returns, or it raises
\* an exception whose str() is the given message
Returns == "returns"
Messages == {"latex failed"}
CallbackOutcomes == {Returns} \cup Messages

\* what the user can put into the other widgets
TextInputs == {"y"}
PreambleFiles == {"q.tex"}
\* the alignment radio buttons the user clicks: "top left", "bottom right"
ClickedLabels == {"top left", "bottom right"}

VARIABLES
  TOOLKIT,        \* the back end selected at import
  node_meta_data, \* the node metadata given to the constructor
  config_in,      \* the configuration store as given to the constructor
  config,         \* self._config, the configuration store now
  dlg,            \* the attributes of the dialog object set by the base class
  tkw,            \* the Tk widgets and Tk variables
  gtkw,           \* the GTK widgets
  preview_callback, \* the preview callback show is given: "None" or "callable"
  phase,          \* where show is: constructed, running, quit, ...
  lastOp,         \* the handler that ran last and what it did
  nEvents,        \* handler runs so far
  bindings,       \* what each import statement of the module does here
  returned,       \* what show has returned, "None" before it returns
  validation,     \* the last call of validate_spinbox_input
  preview         \* the preview image: self._pixbuf and what is displayed

vars == <<TOOLKIT, node_meta_data, config_in, config, dlg, tkw, gtkw,
          preview_callback, phase, lastOp, nEvents,
          bindings, returned, validation, preview>>

\* what a session is given and never changes
Inputs == <<TOOLKIT, node_meta_data, config_in, preview_callback>>

\* what the handlers of the event loop do not touch
Apart == <<bindings, returned, validation, preview>>

\* the class bound to TexTextGui
TexTextGui ==
  IF TOOLKIT = TK THEN "TexTextGuiTK"
  ELSE IF TOOLKIT \in {GTK, GTKSOURCEVIEW} THEN "TexTextGuiGTK"
  ELSE "unbound"

IsTk == TexTextGui = "TexTextGuiTK"
IsGtk == TexTextGui = "TexTextGuiGTK"

(***************************************************************************)
(* TexTextGuiBase.__init__                                                 *)
(***************************************************************************)
\* a constructor that always starts with an empty "gui" section
InitConfigFreshGui(cfg) == DictSet(cfg, "gui", EmptyDict)

\* the store after the constructor has made sure of its "gui" section
InitConfig(cfg) ==
  IF ~has_key(cfg, "gui") THEN DictSet(cfg, "gui", EmptyDict) ELSE cfg

\* a constructor that takes the stored command as it is
InitTexCmdNoFallback(node) == node.tex_command

\* the conversion command the dialog starts with
InitTexCmd(node) ==
  IF InList(node.tex_command, TEX_COMMANDS)
  THEN node.tex_command
  ELSE TEX_COMMANDS[1]

\* the alignment the dialog starts with
InitAlignment(node) == node.alignment

BaseInit(node, cfg) ==
  [global_scale_factor |-> get(InitConfig(cfg), "scale", <<1, 0>>),
   node_scale_factor |-> node.scale_factor,
   current_alignment |-> InitAlignment(node),
   preamble_file |-> node.preamble,
   current_convert_strokes_to_path |-> node.stroke_to_path,
   text |-> IF node.text # "" THEN node.text ELSE "",
   current_texcmd |-> InitTexCmd(node)]

\* no message box or error dialog
NoDialog == [kind |-> "none", title |-> "", message |-> "", text |-> ""]

\* the record of a handler run
Op(name, raised, scale_text, will, invoked, args, shown) ==
  [op |-> name, raised |-> raised, scale_text |-> scale_text, will |-> will,
   invoked |-> invoked, args |-> args, shown |-> shown]

\* what leaves a handler: nothing, or an exception
NoException == [type |-> "None", code |-> 0]
AttributeError == [type |-> "AttributeError", code |-> 0]
ValueError == [type |-> "ValueError", code |-> 0]
SystemExit(code) == [type |-> "SystemExit", code |-> code]

\* a handler that neither reads the scale field nor reaches a callback
PlainOp(name, raised) == Op(name, raised, <<>>, Returns, FALSE, <<>>, NoDialog)

\* the Tk attributes before show: TexTextGuiTK.__init__ sets them to None
TkUnset ==
  [scale |-> <<>>, preamble |-> "", text_box |-> "",
   convert_strokes_to_path |-> FALSE, tex_command_tk_str |-> "",
   alignment_tk_str |-> "", word_wrap_tkval |-> FALSE, wrap |-> "none",
   reset_state |-> "normal", align_state |-> "normal",
   reset_label |-> <<>>, global_label |-> <<>>]

\* the widgets of the window description before create_window sets them;
\* actions holds the state of the menu actions the preference callbacks have
\* been called for, sourceview the properties they have set on the text view,
\* pos_label the numbers last written to the position label
GtkUnset ==
  [cmb_texcmd |-> -1, sbn_scale |-> <<0, 0>>, btn_scalereset_sensitive |-> TRUE,
   cmb_align |-> -1, cmb_align_sensitive |-> TRUE, tbf_texcode |-> "",
   word_wrap_active |-> FALSE, wrap_mode |-> "none",
   actions |-> EmptyDict, sourceview |-> EmptyDict, pos_label |-> <<>>]

(***************************************************************************)
(* The import of the module (gui.py:28-85, 1252-1255).                     *)
(***************************************************************************)
\* the statements of the module that import a binding or ask for a version
ImportStatements ==
  {"gi", "Gtk_version", "Gtk", "Gdk_GdkPixbuf", "GtkSource_version",
   "GtkSource", "tkinter"}

\* what a statement does: an import raises ImportError where the binding is
\* missing, gi.require_version raises ValueError where the version is
ImportOutcomes(statement) ==
  IF statement \in {"Gtk_version", "GtkSource_version"}
  THEN {"ok", "ValueError"}
  ELSE {"ok", "ImportError"}

\* the installations the module can be imported in
AllBindings ==
  {b \in [ImportStatements -> {"ok", "ImportError", "ValueError"}] :
     \A statement \in ImportStatements : b[statement] \in ImportOutcomes(statement)}

\* the statements of the outer try block before the nested one
GtkImports(b) ==
  /\ b["gi"] = "ok" /\ b["Gtk_version"] = "ok"
  /\ b["Gtk"] = "ok" /\ b["Gdk_GdkPixbuf"] = "ok"

\* the statements of the nested try block
GtkSourceImports(b) == b["GtkSource_version"] = "ok" /\ b["GtkSource"] = "ok"

\* the statements of the try block in the outer handler
TkImports(b) == b["tkinter"] = "ok"

\* a module that tries Tk before GTK
ImportToolkitTkFirst(b) ==
  IF TkImports(b) THEN TK
  ELSE IF GtkImports(b)
  THEN (IF GtkSourceImports(b) THEN GTKSOURCEVIEW ELSE GTK)
  ELSE "None"

\* TOOLKIT after the try blocks; "None" where RuntimeError is raised
ImportToolkit(b) ==
  IF GtkImports(b)
  THEN (IF GtkSourceImports(b) THEN GTKSOURCEVIEW ELSE GTK)
  ELSE IF TkImports(b) THEN TK
  ELSE "None"

RuntimeError == [type |-> "RuntimeError", code |-> 0]

\* one installation for each back end: everything imports, GtkSource is
\* missing, gi is missing
SessionBindings ==
  {[statement \in ImportStatements |-> "ok"],
   [statement \in ImportStatements |->
      IF statement = "GtkSource" THEN "ImportError" ELSE "ok"],
   [statement \in ImportStatements |->
      IF statement = "gi" THEN "ImportError" ELSE "ok"]}

\* show has not returned
NotReturned == [done |-> FALSE, value |-> EmptyDict]

\* validate_spinbox_input has not been called
NoValidation ==
  [called |-> FALSE, d |-> 0, i |-> 0, P |-> <<>>, s |-> <<>>, S |-> <<>>,
   valid |-> TRUE]

\* no preview yet: the preview callback has not been called, there is no
\* self._pixbuf, nothing is displayed, the preview has no tooltip and no
\* statement has assigned self.preview_representation
NoPreview ==
  [invoked |-> FALSE, args |-> <<>>,
   has_pixbuf |-> FALSE, pixbuf |-> <<0, 0>>, textview_width |-> 0,
   displayed |-> FALSE, size |-> <<0, 0>>,
   has_tooltip |-> FALSE, representation |-> "unset"]

Init ==
  /\ bindings \in SessionBindings
  /\ TOOLKIT = ImportToolkit(bindings)
  /\ node_meta_data \in Nodes
  /\ config_in \in Configs
  /\ config = InitConfig(config_in)
  /\ dlg = BaseInit(node_meta_data, config_in)
  /\ tkw = TkUnset
  /\ gtkw = GtkUnset
  /\ preview_callback \in (IF TOOLKIT = TK THEN {"None"} ELSE {"None", "callable"})
  /\ phase = "constructed"
  /\ lastOp = PlainOp("__init__", NoException)
  /\ nEvents = 0
  /\ returned = NotReturned
  /\ validation = NoValidation
  /\ preview = NoPreview

(***************************************************************************)
(* TexTextGuiTK                                                            *)
(***************************************************************************)
\* a validator that accepts every edit
validate_accept_all(P, S) == TRUE

\* validate_spinbox_input: P is the content the edit would leave, S the
\* text inserted or deleted
validate_spinbox_input(P, S) ==
  IF S = <<>> \/ P = <<>> THEN TRUE ELSE PyFloat(P) # "ValueError"

\* the scale field after an attempt to insert S at index i (validate="key")
ScaleInsert(s, i, S) ==
  LET P == SubSeq(s, 1, i) \o S \o SubSeq(s, i + 1, Len(s))
  IN  IF validate_spinbox_input(P, S) THEN P ELSE s

\* the scale field after an attempt to delete the characters i+1..j
ScaleDelete(s, i, j) ==
  LET P == SubSeq(s, 1, i) \o SubSeq(s, j + 1, Len(s))
  IN  IF validate_spinbox_input(P, SubSeq(s, i + 1, j)) THEN P ELSE s

\* self._scale.delete(0, "end"); self._scale.insert(0, value)
ScaleSet(s, value) == ScaleInsert(ScaleDelete(s, 0, Len(s)), 0, FloatStr(value))

\* a "Reset" button that is never disabled
TkResetStateAlwaysNormal(text) == "normal"

\* state of the "Reset" button
TkResetState(text) == IF text = "" THEN "disabled" ELSE "normal"

\* state of the nine alignment radio buttons
TkAlignState(text) == IF text = "" THEN "disabled" ELSE "normal"

\* the two wrap options the wrong way round
TkWrapInverted(active) == IF active THEN "none" ELSE "word"

\* wrap option of the text box for a value of the word-wrap variable
TkWrap(active) == IF active THEN "word" ELSE "none"

\* self._text_box.get(1.0, tk.END): the content and the final newline of a
\* Tk text widget
TextGet(content) == content \o "\n"

\* the digits of n thousandths as a number with three decimals
Thousandths(ds) ==
  LET padded == Zeros(4 - Len(ds)) \o ds
  IN  SubSeq(padded, 1, Len(padded) - 3) \o <<".">>
        \o SubSeq(padded, Len(padded) - 2, Len(padded))

\* f"{v:.3f}" for a value of at most three decimals
Format3f(v) ==
  LET m == IF v[1] < 0 THEN 0 - v[1] ELSE v[1]
      sign == IF v[1] < 0 THEN <<"-">> ELSE <<>>
  IN  sign \o Thousandths(NatDigits(m) \o Zeros(v[2] + 3))

\* reset_scale: the value on the "Reset" button; a scale factor of zero is
\* falsy
reset_scale(d) ==
  IF d.node_scale_factor[1] # 0 THEN d.node_scale_factor
  ELSE d.global_scale_factor

\* TexTextGuiTK.show up to the main loop
TkShow ==
  /\ IsTk
  /\ phase = "constructed"
  /\ LET ww == get(config["gui"], "word_wrap", DEFAULT_WORDWRAP)
     IN  tkw' = [scale |-> ScaleSet(<<>>, dlg.node_scale_factor),
                 preamble |-> dlg.preamble_file,
                 text_box |-> dlg.text,
                 convert_strokes_to_path |-> dlg.current_convert_strokes_to_path,
                 tex_command_tk_str |-> dlg.current_texcmd,
                 alignment_tk_str |-> dlg.current_alignment,
                 word_wrap_tkval |-> ww,
                 wrap |-> TkWrap(ww),
                 reset_state |-> TkResetState(dlg.text),
                 align_state |-> TkAlignState(dlg.text),
                 reset_label |-> Format3f(reset_scale(dlg)),
                 global_label |-> Format3f(dlg.global_scale_factor)]
  /\ phase' = "running"
  /\ lastOp' = PlainOp("show", NoException)
  /\ UNCHANGED <<Inputs, Apart, config, dlg, gtkw, nEvents>>

\* the strings typed or pasted into the scale field in one edit
InsertStrings == {<<c>> : c \in Chars} \cup {<<c, d>> : c \in Chars, d \in Chars}

TkRunning == IsTk /\ phase = "running" /\ nEvents < MaxEvents

\* the user types or pastes into the scale field
TkScaleInsert ==
  /\ TkRunning
  /\ \E i \in 0..Len(tkw.scale), S \in InsertStrings :
       /\ Len(tkw.scale) + Len(S) <= MaxLen
       /\ tkw' = [tkw EXCEPT !.scale = ScaleInsert(tkw.scale, i, S)]
  /\ lastOp' = PlainOp("scale_insert", NoException)
  /\ nEvents' = nEvents + 1
  /\ UNCHANGED <<Inputs, Apart, config, dlg, gtkw, phase>>

\* the user deletes a character or a selection of the scale field
TkScaleDelete ==
  /\ TkRunning
  /\ \E i \in 0..Len(tkw.scale), j \in 1..Len(tkw.scale) :
       /\ i < j
       /\ tkw' = [tkw EXCEPT !.scale = ScaleDelete(tkw.scale, i, j)]
  /\ lastOp' = PlainOp("scale_delete", NoException)
  /\ nEvents' = nEvents + 1
  /\ UNCHANGED <<Inputs, Apart, config, dlg, gtkw, phase>>

\* the user replaces the content of the text box
TkEditText ==
  /\ TkRunning
  /\ \E t \in TextInputs \cup {""} : tkw' = [tkw EXCEPT !.text_box = t]
  /\ lastOp' = PlainOp("edit_text", NoException)
  /\ nEvents' = nEvents + 1
  /\ UNCHANGED <<Inputs, Apart, config, dlg, gtkw, phase>>

\* the user toggles the "No strokes" check button
TkToggleStrokes ==
  /\ TkRunning
  /\ tkw' = [tkw EXCEPT !.convert_strokes_to_path = ~tkw.convert_strokes_to_path]
  /\ lastOp' = PlainOp("toggle_strokes", NoException)
  /\ nEvents' = nEvents + 1
  /\ UNCHANGED <<Inputs, Apart, config, dlg, gtkw, phase>>

\* the user picks one of the TeX command radio buttons
TkSelectTexCommand ==
  /\ TkRunning
  /\ \E i \in 1..Len(TEX_COMMANDS) :
       tkw' = [tkw EXCEPT !.tex_command_tk_str = TEX_COMMANDS[i]]
  /\ lastOp' = PlainOp("select_tex_command", NoException)
  /\ nEvents' = nEvents + 1
  /\ UNCHANGED <<Inputs, Apart, config, dlg, gtkw, phase>>

\* the user picks one of the alignment radio buttons, when they are enabled
TkSelectAlignment ==
  /\ TkRunning
  /\ tkw.align_state = "normal"
  /\ \E label \in ClickedLabels :
       /\ InList(label, ALIGNMENT_LABELS)
       /\ tkw' = [tkw EXCEPT !.alignment_tk_str = label]
  /\ lastOp' = PlainOp("select_alignment", NoException)
  /\ nEvents' = nEvents + 1
  /\ UNCHANGED <<Inputs, Apart, config, dlg, gtkw, phase>>

\* a conversion that takes a scale field that does not parse for zero
ScaleFieldValueOrZero(s) ==
  IF PyFloat(s) = "ValueError" THEN <<0, 0>> ELSE PyFloat(s)

\* float(self._scale.get()) in cb_ok: the value, or "ValueError"
ScaleFieldValue(s) == PyFloat(s)

\* arguments that carry the node's scale factor, not the one just parsed
TkConvertArgsNodeScale(d, w) ==
  <<d.text, d.preamble_file, d.node_scale_factor,
    w.alignment_tk_str, w.tex_command_tk_str, d.current_convert_strokes_to_path>>

\* arguments with the command name before the alignment label
TkConvertArgsSwapped(d, w) ==
  <<d.text, d.preamble_file, d.global_scale_factor,
    w.tex_command_tk_str, w.alignment_tk_str, d.current_convert_strokes_to_path>>

\* the positional arguments cb_ok gives the convert callback
TkConvertArgs(d, w) ==
  <<d.text, d.preamble_file, d.global_scale_factor,
    w.alignment_tk_str, w.tex_command_tk_str, d.current_convert_strokes_to_path>>

\* tk_msg_boxes.showerror of cb_ok
ScaleErrorBox ==
  [kind |-> "showerror", title |-> "Scale factor error",
   message |-> "Please enter a valid floating point number for the scale factor!",
   text |-> ""]

\* show_error_dialog(title, message_text, exception): the text view holds
\* str(exception) under the header message_text
ErrorDialog(title, message_text, exception_str) ==
  [kind |-> "error_dialog", title |-> title, message |-> message_text,
   text |-> exception_str]

\* a cb_ok that stores the text, the preamble and the check button before
\* it parses the scale field
TkCbOkStoresFirst ==
  /\ TkRunning
  /\ \E will \in CallbackOutcomes :
       LET v == ScaleFieldValue(tkw.scale)
           stored == [dlg EXCEPT
                        !.text = TextGet(tkw.text_box),
                        !.preamble_file = tkw.preamble,
                        !.current_convert_strokes_to_path =
                           tkw.convert_strokes_to_path]
           d == [stored EXCEPT !.global_scale_factor = v]
       IN  IF v = "ValueError"
           THEN /\ dlg' = stored
                /\ lastOp' = Op("cb_ok", NoException, tkw.scale, will, FALSE,
                                <<>>, ScaleErrorBox)
                /\ UNCHANGED phase
           ELSE /\ dlg' = d
                /\ lastOp' = Op("cb_ok", NoException, tkw.scale, will, TRUE,
                                TkConvertArgs(d, tkw),
                                IF will = Returns THEN NoDialog
                                ELSE ErrorDialog("TexText Error",
                                       "Error occurred while converting text from Latex to SVG:",
                                       will))
                /\ phase' = IF will = Returns THEN "quit" ELSE phase
  /\ nEvents' = nEvents + 1
  /\ UNCHANGED <<Inputs, Apart, config, tkw, gtkw>>

\* TexTextGuiTK.cb_ok with a convert callback that does `will`
TkCbOk ==
  /\ TkRunning
  /\ \E will \in CallbackOutcomes :
       LET v == ScaleFieldValue(tkw.scale)
           d == [dlg EXCEPT
                   !.global_scale_factor = v,
                   !.text = TextGet(tkw.text_box),
                   !.preamble_file = tkw.preamble,
                   !.current_convert_strokes_to_path = tkw.convert_strokes_to_path]
       IN  IF v = "ValueError"
           THEN /\ lastOp' = Op("cb_ok", NoException, tkw.scale, will, FALSE,
                                <<>>, ScaleErrorBox)
                /\ UNCHANGED <<dlg, phase>>
           ELSE /\ dlg' = d
                /\ lastOp' = Op("cb_ok", NoException, tkw.scale, will, TRUE,
                                TkConvertArgs(d, tkw),
                                IF will = Returns THEN NoDialog
                                ELSE ErrorDialog("TexText Error",
                                       "Error occurred while converting text from Latex to SVG:",
                                       will))
                /\ phase' = IF will = Returns THEN "quit" ELSE phase
  /\ nEvents' = nEvents + 1
  /\ UNCHANGED <<Inputs, Apart, config, tkw, gtkw>>

\* a cb_cancel that leaves the main loop instead of ending the process
TkCbCancelQuit ==
  /\ TkRunning
  /\ phase' = "quit"
  /\ lastOp' = PlainOp("cb_cancel", NoException)
  /\ nEvents' = nEvents + 1
  /\ UNCHANGED <<Inputs, Apart, config, dlg, tkw, gtkw>>

\* TexTextGuiTK.cb_cancel: raise SystemExit(1)
TkCbCancel ==
  /\ TkRunning
  /\ phase' = "exited"
  /\ lastOp' = PlainOp("cb_cancel", SystemExit(1))
  /\ nEvents' = nEvents + 1
  /\ UNCHANGED <<Inputs, Apart, config, dlg, tkw, gtkw>>

\* TexTextGuiTK.cb_word_wrap, run after the check button has changed its variable
TkCbWordWrap ==
  /\ TkRunning
  /\ LET active == ~tkw.word_wrap_tkval
     IN  /\ tkw' = [tkw EXCEPT !.word_wrap_tkval = active, !.wrap = TkWrap(active)]
         /\ config' = DictSet(config, "gui", DictSet(config["gui"], "word_wrap", active))
  /\ lastOp' = PlainOp("cb_word_wrap", NoException)
  /\ nEvents' = nEvents + 1
  /\ UNCHANGED <<Inputs, Apart, dlg, gtkw, phase>>

\* TexTextGuiTK.reset_scale_factor, the command of the "Reset" button
TkResetScaleFactor ==
  /\ TkRunning
  /\ tkw.reset_state = "normal"
  /\ tkw' = [tkw EXCEPT !.scale = ScaleSet(tkw.scale, dlg.node_scale_factor)]
  /\ lastOp' = PlainOp("reset_scale_factor", NoException)
  /\ nEvents' = nEvents + 1
  /\ UNCHANGED <<Inputs, Apart, config, dlg, gtkw, phase>>

\* TexTextGuiTK.use_global_scale_factor, the command of the "As previous" button
TkUseGlobalScaleFactor ==
  /\ TkRunning
  /\ tkw' = [tkw EXCEPT !.scale = ScaleSet(tkw.scale, dlg.global_scale_factor)]
  /\ lastOp' = PlainOp("use_global_scale_factor", NoException)
  /\ nEvents' = nEvents + 1
  /\ UNCHANGED <<Inputs, Apart, config, dlg, gtkw, phase>>

\* TexTextGuiTK.select_preamble_file: askopenfilename gives the chosen path,
\* or "" when the file dialog is dismissed; neither is None, so the field is
\* emptied and file_name inserted
TkSelectPreambleFile ==
  /\ TkRunning
  /\ \E file_name \in PreambleFiles \cup {""} :
       /\ tkw' = [tkw EXCEPT !.preamble = file_name]
       /\ lastOp' = Op("select_preamble_file", NoException, <<>>, Returns,
                       FALSE, <<file_name>>, NoDialog)
  /\ nEvents' = nEvents + 1
  /\ UNCHANGED <<Inputs, Apart, config, dlg, gtkw, phase>>

\* a show that returns the store as it was given to the constructor
ShowResultAsGiven(cfg, given) == given

\* return self._config: the store the constructor was given, as it is now
ShowResult(cfg, given) == cfg

\* the main loop has been left and show returns self._config
ShowReturn ==
  /\ phase = "quit"
  /\ returned' = [done |-> TRUE, value |-> ShowResult(config, config_in)]
  /\ phase' = "returned"
  /\ UNCHANGED <<Inputs, config, dlg, tkw, gtkw, lastOp, nEvents,
                 bindings, validation, preview>>

(***************************************************************************)
(* TexTextGuiGTK                                                           *)
(***************************************************************************)
\* the members a TexTextGuiGTK object has while the main loop runs: the class
\* constants, the attributes that TexTextGuiBase.__init__,
\* TexTextGuiGTK.__init__ and show assign, and the methods of the two classes.
\* No statement of the file assigns the widgets that the handlers read from
\* self (create_window keeps them in local variables).
GtkMembers ==
  {"DEFAULT_WORDWRAP", "DEFAULT_SHOWLINENUMBERS", "DEFAULT_AUTOINDENT",
   "DEFAULT_INSERTSPACES", "DEFAULT_TABWIDTH", "DEFAULT_FONTSIZE",
   "DEFAULT_NEW_NODE_CONTENT", "DEFAULT_CLOSE_SHORTCUT", "DEFAULT_CONFIRM_CLOSE",
   "DEFAULT_PREVIEW_WHITE_BACKGROUND", "TEX_COMMANDS", "ALIGNMENT_LABELS",
   "FONT_SIZE", "NEW_NODE_CONTENT", "CLOSE_SHORTCUT", "CLOSE_SHORTCUT_TEXT",
   "textext_version", "_config", "global_scale_factor", "node_scale_factor",
   "current_alignment", "preamble_file", "current_convert_strokes_to_path",
   "text", "current_texcmd", "convert_callback", "preview_callback",
   "signal_handlers", "_convert_callback", "_preview_callback",
   "__init__", "create_window", "show", "define_actions_textbuffer",
   "define_actions_view", "define_actions_gtksourceview_additions",
   "define_actions_settings", "set_monospace_font", "open_file_cb",
   "update_position_label", "load_file", "open_file", "numbers_toggled_cb",
   "auto_indent_toggled_cb", "insert_spaces_toggled_cb", "word_wrap_toggled_cb",
   "on_preview_background_chagned", "tabs_toggled_cb", "new_node_content_cb",
   "font_size_cb", "close_shortcut_cb", "confirm_close_toggled_cb",
   "cb_key_press", "cb_ok", "cb_cancel", "move_cursor_cb", "on_window_delete",
   "update_preview", "set_preview_image_from_file",
   "switch_preview_representation", "update_preview_representation",
   "clear_preamble", "set_preamble", "on_btn_scalereset_clicked",
   "on_btn_scaleprevious_clicked", "show_error_dialog"}

\* what reading self.<name> raises
GtkGetAttr(name) == IF name \in GtkMembers THEN NoException ELSE AttributeError

\* widget.set_sensitive(self.text != "")
GtkSensitive(text) == text # ""

\* the wrap mode word_wrap_toggled_cb sets for a state of the action
GtkWrapMode(active) == IF active THEN "word" ELSE "none"

\* TexTextGuiGTK.show: create_window, then the main loop.  create_window
\* raises ValueError at ALIGNMENT_LABELS.index for an alignment that is not
\* in the list, after it has set the widgets before the alignment box.
GtkShow ==
  /\ IsGtk
  /\ phase = "constructed"
  /\ LET upto == [gtkw EXCEPT
                    !.cmb_texcmd = ListIndex(TEX_COMMANDS, dlg.current_texcmd),
                    !.sbn_scale = dlg.node_scale_factor,
                    !.btn_scalereset_sensitive = GtkSensitive(dlg.text)]
         index == ListIndex(ALIGNMENT_LABELS, dlg.current_alignment)
     IN  IF ~InList(dlg.current_alignment, ALIGNMENT_LABELS)
         THEN /\ gtkw' = upto
              /\ phase' = "failed"
              /\ lastOp' = PlainOp("show", ValueError)
         ELSE /\ gtkw' = [upto EXCEPT
                            !.cmb_align = index,
                            !.cmb_align_sensitive = GtkSensitive(dlg.text),
                            !.tbf_texcode = dlg.text]
              /\ phase' = "running"
              /\ lastOp' = PlainOp("show", NoException)
  /\ UNCHANGED <<Inputs, Apart, config, dlg, tkw, nEvents>>

GtkRunning == IsGtk /\ phase = "running" /\ nEvents < MaxEvents

\* TexTextGuiGTK.cb_ok: its first statement reads self._source_buffer
GtkCbOk ==
  /\ GtkRunning
  /\ GtkGetAttr("_source_buffer") = AttributeError
  /\ \E will \in CallbackOutcomes :
       lastOp' = Op("cb_ok", AttributeError, <<>>, will, FALSE, <<>>, NoDialog)
  /\ nEvents' = nEvents + 1
  /\ UNCHANGED <<Inputs, Apart, config, dlg, tkw, gtkw, phase>>

\* TexTextGuiGTK.cb_cancel: self.window_deleted_cb(widget, None, None)
GtkCbCancel ==
  /\ GtkRunning
  /\ GtkGetAttr("window_deleted_cb") = AttributeError
  /\ lastOp' = PlainOp("cb_cancel", AttributeError)
  /\ nEvents' = nEvents + 1
  /\ UNCHANGED <<Inputs, Apart, config, dlg, tkw, gtkw, phase>>

\* TexTextGuiGTK.on_window_delete, the handler of the window's destroy signal
GtkOnWindowDelete ==
  /\ GtkRunning
  /\ phase' = "quit"
  /\ lastOp' = PlainOp("on_window_delete", NoException)
  /\ nEvents' = nEvents + 1
  /\ UNCHANGED <<Inputs, Apart, config, dlg, tkw, gtkw>>

\* TexTextGuiGTK.update_preview with a preview callback that does `will`:
\* without a preview callback it does nothing, with one it reads
\* self._source_buffer before it comes to the callback
GtkUpdatePreview ==
  /\ GtkRunning
  /\ \E will \in CallbackOutcomes :
       lastOp' = Op("update_preview",
                    IF preview_callback # "None"
                    THEN GtkGetAttr("_source_buffer") ELSE NoException,
                    <<>>, will, FALSE, <<>>, NoDialog)
  /\ nEvents' = nEvents + 1
  /\ UNCHANGED <<Inputs, Apart, config, dlg, tkw, gtkw, phase>>

\* TexTextGuiGTK.word_wrap_toggled_cb, run after the toggle action has changed
GtkWordWrapToggled ==
  /\ GtkRunning
  /\ LET active == ~gtkw.word_wrap_active
     IN  /\ gtkw' = [gtkw EXCEPT !.word_wrap_active = active,
                                 !.wrap_mode = GtkWrapMode(active),
                                 !.actions = DictSet(@, "WordWrap", active)]
         /\ config' = DictSet(config, "gui", DictSet(config["gui"], "word_wrap", active))
  /\ lastOp' = PlainOp("word_wrap_toggled_cb", NoException)
  /\ nEvents' = nEvents + 1
  /\ UNCHANGED <<Inputs, Apart, dlg, tkw, phase>>

\* TexTextGuiGTK.on_btn_scalereset_clicked
GtkScaleReset ==
  /\ GtkRunning
  /\ gtkw.btn_scalereset_sensitive
  /\ gtkw' = [gtkw EXCEPT !.sbn_scale = dlg.node_scale_factor]
  /\ lastOp' = PlainOp("on_btn_scalereset_clicked", NoException)
  /\ nEvents' = nEvents + 1
  /\ UNCHANGED <<Inputs, Apart, config, dlg, tkw, phase>>

\* TexTextGuiGTK.on_btn_scaleprevious_clicked
GtkScalePrevious ==
  /\ GtkRunning
  /\ gtkw' = [gtkw EXCEPT !.sbn_scale = dlg.global_scale_factor]
  /\ lastOp' = PlainOp("on_btn_scaleprevious_clicked", NoException)
  /\ nEvents' = nEvents + 1
  /\ UNCHANGED <<Inputs, Apart, config, dlg, tkw, phase>>

\* the values the user sets the spin button to
SpinInputs == {<<11, 0>>}

\* the user changes the spin button
GtkEditScale ==
  /\ GtkRunning
  /\ \E v \in SpinInputs : gtkw' = [gtkw EXCEPT !.sbn_scale = v]
  /\ lastOp' = PlainOp("edit_scale", NoException)
  /\ nEvents' = nEvents + 1
  /\ UNCHANGED <<Inputs, Apart, config, dlg, tkw, phase>>

\* the user picks an entry of the TeX command box
GtkSelectTexCommand ==
  /\ GtkRunning
  /\ \E c \in 0..(Len(TEX_COMMANDS) - 1) : gtkw' = [gtkw EXCEPT !.cmb_texcmd = c]
  /\ lastOp' = PlainOp("select_tex_command", NoException)
  /\ nEvents' = nEvents + 1
  /\ UNCHANGED <<Inputs, Apart, config, dlg, tkw, phase>>

\* the user picks an entry of the alignment box, when it is sensitive
GtkSelectAlignment ==
  /\ GtkRunning
  /\ gtkw.cmb_align_sensitive
  /\ \E label \in ClickedLabels :
       /\ InList(label, ALIGNMENT_LABELS)
       /\ gtkw' = [gtkw EXCEPT !.cmb_align = ListIndex(ALIGNMENT_LABELS, label)]
  /\ lastOp' = PlainOp("select_alignment", NoException)
  /\ nEvents' = nEvents + 1
  /\ UNCHANGED <<Inputs, Apart, config, dlg, tkw, phase>>

\* the user replaces the content of the text buffer
GtkEditText ==
  /\ GtkRunning
  /\ \E t \in TextInputs \cup {""} : gtkw' = [gtkw EXCEPT !.tbf_texcode = t]
  /\ lastOp' = PlainOp("edit_text", NoException)
  /\ nEvents' = nEvents + 1
  /\ UNCHANGED <<Inputs, Apart, config, dlg, tkw, phase>>

Next ==
  \/ TkShow \/ TkScaleInsert \/ TkScaleDelete \/ TkEditText \/ TkToggleStrokes
  \/ TkSelectTexCommand \/ TkSelectAlignment \/ TkCbOk \/ TkCbCancel
  \/ TkCbWordWrap \/ TkResetScaleFactor \/ TkUseGlobalScaleFactor
  \/ TkSelectPreambleFile
  \/ GtkShow \/ GtkCbOk \/ GtkCbCancel \/ GtkOnWindowDelete \/ GtkUpdatePreview
  \/ GtkWordWrapToggled \/ GtkScaleReset \/ GtkScalePrevious \/ GtkEditScale
  \/ GtkSelectTexCommand \/ GtkSelectAlignment \/ GtkEditText
  \/ ShowReturn

Spec == Init /\ [][Next]_vars

(***************************************************************************)
(* The claims.                                                             *)
(***************************************************************************)
\* the window has been presented (show has reached the main loop)
Presented == phase \in {"running", "quit", "returned", "exited"}

\* the main loop has ended
Closed == phase \in {"quit", "returned", "exited"}

\* C1: in both back ends cb_cancel ends the dialog and does not call the
\* convert callback.  (Fails: the GTK cb_cancel raises AttributeError and the
\* main loop keeps running.)
C1_CancelEndsDialog ==
  lastOp.op = "cb_cancel" => (Closed /\ ~lastOp.invoked)

\* C2: a Tk cb_ok on a scale field that does not parse as a float does not
\* call the convert callback, shows the scale-factor error box and leaves the
\* main loop running.
C2_BadScaleRejected ==
  (IsTk /\ lastOp.op = "cb_ok" /\ PyFloat(lastOp.scale_text) = "ValueError")
    => /\ ~lastOp.invoked
       /\ lastOp.shown.kind = "showerror"
       /\ lastOp.shown.title = "Scale factor error"
       /\ phase = "running"

C2_Witness ==
  /\ IsTk /\ lastOp.op = "cb_ok" /\ lastOp.scale_text = <<>>
  /\ lastOp.shown.kind = "showerror" /\ phase = "running"

\* C3: a Tk cb_ok on a scale field that parses as a float calls the convert
\* callback with, as third argument, the float value of that string.
C3_ScaleArgumentIsFieldValue ==
  (IsTk /\ lastOp.op = "cb_ok" /\ PyFloat(lastOp.scale_text) # "ValueError")
    => (lastOp.invoked /\ lastOp.args[3] = PyFloat(lastOp.scale_text))

C3_Witness ==
  /\ IsTk /\ lastOp.op = "cb_ok" /\ lastOp.invoked
  /\ lastOp.scale_text = <<"1", "e", "1">> /\ lastOp.args[3] = <<1, 1>>
  /\ dlg.node_scale_factor # <<1, 1>>

\* C4: in both back ends a cb_ok whose convert callback raises leaves the
\* main loop running and shows the exception's message, unchanged, in the
\* error dialog.  (Fails: the GTK cb_ok raises AttributeError before it
\* reaches the callback, and shows nothing.)
C4_RaisingCallbackShown ==
  (lastOp.op = "cb_ok" /\ lastOp.will \in Messages
     /\ (IsTk => PyFloat(lastOp.scale_text) # "ValueError"))
    => /\ lastOp.raised = NoException
       /\ lastOp.shown.kind = "error_dialog"
       /\ lastOp.shown.text = lastOp.will
       /\ phase = "running"

\* C5: in both back ends cb_ok ends the main loop exactly when it has called
\* the convert callback and the callback has returned, and a confirm whose
\* callback returns ends it also after confirms that failed.  (Fails: the
\* GTK cb_ok never calls the callback and never ends the main loop.)
C5_ConfirmClosesOnSuccess ==
  lastOp.op = "cb_ok"
    => /\ Closed <=> (lastOp.invoked /\ lastOp.will = Returns)
       /\ (lastOp.will = Returns
             /\ (IsTk => PyFloat(lastOp.scale_text) # "ValueError"))
            => Closed

\* C6: the current conversion command is one of TEX_COMMANDS: the node's
\* command when that is one of them, and "pdflatex" otherwise; so is the
\* command the widgets show and the one handed to the convert callback.
C6_TexCommandInEnumeration ==
  /\ InList(dlg.current_texcmd, TEX_COMMANDS)
  /\ dlg.current_texcmd =
       (IF InList(node_meta_data.tex_command, TEX_COMMANDS)
        THEN node_meta_data.tex_command ELSE "pdflatex")
  /\ (IsTk /\ Presented) => InList(tkw.tex_command_tk_str, TEX_COMMANDS)
  /\ (IsGtk /\ Presented) => gtkw.cmb_texcmd \in 0..(Len(TEX_COMMANDS) - 1)
  /\ lastOp.invoked => InList(lastOp.args[5], TEX_COMMANDS)

C6_Witness ==
  /\ node_meta_data.tex_command = "latex"
  /\ dlg.current_texcmd = "pdflatex"
  /\ lastOp.invoked /\ lastOp.args[5] = "pdflatex"

\* C7: the alignment shown as selected and the one handed to the convert
\* callback is one of ALIGNMENT_LABELS, a stored alignment outside them is
\* replaced by "top left", and show does not fail on it.  (Fails: the
\* constructor keeps the stored alignment as it is.)
C7_AlignmentInEnumeration ==
  /\ phase # "failed"
  /\ (lastOp.op = "show" /\ ~InList(node_meta_data.alignment, ALIGNMENT_LABELS))
       => /\ IsTk => tkw.alignment_tk_str = "top left"
          /\ IsGtk => gtkw.cmb_align = 0
  /\ (IsTk /\ Presented) => InList(tkw.alignment_tk_str, ALIGNMENT_LABELS)
  /\ (IsGtk /\ Presented) => gtkw.cmb_align \in 0..(Len(ALIGNMENT_LABELS) - 1)
  /\ lastOp.invoked => InList(lastOp.args[4], ALIGNMENT_LABELS)

\* C8: in both back ends the presented alignment control and "Reset" button
\* are disabled when the node's text is empty and enabled when it is not.
C8_EmptyTextDisablesControls ==
  /\ (IsTk /\ Presented)
       => /\ tkw.reset_state = "disabled" <=> node_meta_data.text = ""
          /\ tkw.align_state = "disabled" <=> node_meta_data.text = ""
          /\ tkw.reset_state \in {"disabled", "normal"}
          /\ tkw.align_state \in {"disabled", "normal"}
  /\ (IsGtk /\ Presented)
       => /\ gtkw.btn_scalereset_sensitive <=> node_meta_data.text # ""
          /\ gtkw.cmb_align_sensitive <=> node_meta_data.text # ""

C8_Witness ==
  /\ IsGtk /\ phase = "running" /\ node_meta_data.text = ""
  /\ ~gtkw.btn_scalereset_sensitive /\ ~gtkw.cmb_align_sensitive
  /\ nEvents > 0

C10_TkCancelExits ==
  /\ [](IsTk /\ lastOp.op = "cb_cancel"
          => lastOp.raised = SystemExit(1) /\ phase = "exited")
  /\ [][phase = "exited" => phase' = "exited"]_vars

C10_Witness ==
  /\ IsTk /\ lastOp.op = "cb_cancel" /\ phase = "exited"
  /\ lastOp.raised.type = "SystemExit" /\ lastOp.raised.code = 1
  /\ nEvents = MaxEvents

\* C11: the GTK cb_cancel raises nothing and ends the main loop, so that show
\* returns the configuration store.  (Fails: it calls self.window_deleted_cb,
\* which is not defined, and the main loop keeps running.)
C11_GtkCancelLeavesLoop ==
  (IsGtk /\ lastOp.op = "cb_cancel")
    => /\ lastOp.raised = NoException
       /\ phase \in {"quit", "returned"}
       /\ (phase = "returned" => returned.done /\ returned.value = config)

\* C12: show returns only after the main loop has ended, and what it returns
\* is the store given to the constructor as it is then: with its "gui"
\* section, with the word-wrap preference as last set, and with every other
\* entry as it was given.
C12_ShowReturnsStore ==
  /\ [](returned.done
          => /\ phase = "returned"
             /\ returned.value = config
             /\ has_key(returned.value, "gui")
             /\ \A k \in DOMAIN config_in \ {"gui"} :
                  has_key(returned.value, k) /\ returned.value[k] = config_in[k]
             /\ (IsTk => get(returned.value["gui"], "word_wrap", DEFAULT_WORDWRAP)
                           = tkw.word_wrap_tkval))
  /\ [][returned'.done # returned.done
          => phase = "quit" /\ phase' = "returned"]_vars

C12_Witness ==
  /\ returned.done /\ phase = "returned"
  /\ has_key(config_in, "gui") /\ get(config_in["gui"], "word_wrap", FALSE)
  /\ ~returned.value["gui"]["word_wrap"]
  /\ lastOp.op = "cb_ok"

\* C13: a Tk cb_ok on a scale field that parses calls the convert callback
\* (the one call of the handler) with six positional values in the order
\* text, preamble path, scale, alignment label, command name, stroke-to-path
\* flag, each as the widgets hold it at that moment; the text is what the
\* text box returns, its content and the final newline.
C13_TkPositionalArguments ==
  (IsTk /\ lastOp.op = "cb_ok" /\ PyFloat(tkw.scale) # "ValueError")
    => /\ lastOp.invoked
       /\ Len(lastOp.args) = 6
       /\ lastOp.args[1] = tkw.text_box \o "\n"
       /\ lastOp.args[2] = tkw.preamble
       /\ lastOp.args[3] = PyFloat(tkw.scale)
       /\ lastOp.args[4] = tkw.alignment_tk_str
       /\ lastOp.args[5] = tkw.tex_command_tk_str
       /\ lastOp.args[6] = tkw.convert_strokes_to_path

C13_Witness ==
  /\ IsTk /\ lastOp.op = "cb_ok" /\ lastOp.invoked
  /\ lastOp.args[1] = "y\n" /\ node_meta_data.text # "y"
  /\ lastOp.args[2] = "q.tex" /\ node_meta_data.preamble # "q.tex"
  /\ lastOp.args[4] # lastOp.args[5]

\* C14: the GTK cb_ok calls the convert callback with one metadata record
\* that holds the current widget values, command and alignment being the
\* entries of TEX_COMMANDS and ALIGNMENT_LABELS at the selected indices; a
\* failure on the way is shown in the error dialog.  (Fails: cb_ok raises
\* AttributeError at its first statement, calls nothing and shows nothing.)
C14_GtkMetadataRecord ==
  (IsGtk /\ lastOp.op = "cb_ok")
    => \/ /\ lastOp.invoked
          /\ Len(lastOp.args) = 1
          /\ lastOp.args[1].text = gtkw.tbf_texcode
          /\ lastOp.args[1].scale_factor = gtkw.sbn_scale
          /\ lastOp.args[1].tex_command = TEX_COMMANDS[gtkw.cmb_texcmd + 1]
          /\ lastOp.args[1].alignment = ALIGNMENT_LABELS[gtkw.cmb_align + 1]
       \/ /\ lastOp.raised = NoException
          /\ lastOp.shown.kind = "error_dialog"

(***************************************************************************)
(* The import of the module and the construction of a dialog, in every     *)
(* installation.                                                           *)
(***************************************************************************)
\* the module is about to be imported: TOOLKIT = None, no dialog yet
InitImport ==
  /\ bindings \in AllBindings
  /\ TOOLKIT = "None"
  /\ node_meta_data = EmptyDict
  /\ config_in = EmptyDict
  /\ config = EmptyDict
  /\ dlg = EmptyDict
  /\ tkw = TkUnset
  /\ gtkw = GtkUnset
  /\ preview_callback = "None"
  /\ phase = "import"
  /\ lastOp = PlainOp("import", NoException)
  /\ nEvents = 0
  /\ returned = NotReturned
  /\ validation = NoValidation
  /\ preview = NoPreview

\* the statements of the module run: the try blocks set TOOLKIT or raise
\* RuntimeError, and the last statement binds TexTextGui
ImportModule ==
  /\ phase = "import"
  /\ TOOLKIT' = ImportToolkit(bindings)
  /\ phase' = IF ImportToolkit(bindings) = "None" THEN "import_failed" ELSE "loaded"
  /\ lastOp' = PlainOp("import", IF ImportToolkit(bindings) = "None"
                                 THEN RuntimeError ELSE NoException)
  /\ UNCHANGED <<node_meta_data, config_in, config, dlg, tkw, gtkw,
                 preview_callback, nEvents, Apart>>

\* TexTextGui(version_str, node_meta_data, config)
Construct ==
  /\ phase = "loaded"
  /\ \E node \in Nodes, cfg \in Configs :
       /\ node_meta_data' = node
       /\ config_in' = cfg
       /\ config' = InitConfig(cfg)
       /\ dlg' = BaseInit(node, cfg)
  /\ phase' = "constructed"
  /\ lastOp' = PlainOp("__init__", NoException)
  /\ UNCHANGED <<TOOLKIT, tkw, gtkw, preview_callback, nEvents, Apart>>

NextImport == ImportModule \/ Construct

SpecImport == InitImport /\ [][NextImport]_vars

\* C15: once the module has loaded, TOOLKIT is the first of GTK Source View,
\* GTK, TK whose bindings import, and TexTextGui is TexTextGuiTK for TK and
\* TexTextGuiGTK for the other two; the import fails, with RuntimeError,
\* exactly where no back end imports; TOOLKIT does not change after the
\* import.
C15_ToolkitSelection ==
  /\ [](phase \in {"loaded", "constructed"}
          => /\ TOOLKIT \in Toolkits
             /\ TOOLKIT = GTKSOURCEVIEW
                  <=> (GtkImports(bindings) /\ GtkSourceImports(bindings))
             /\ TOOLKIT = GTK
                  <=> (GtkImports(bindings) /\ ~GtkSourceImports(bindings))
             /\ TOOLKIT = TK
                  <=> (~GtkImports(bindings) /\ TkImports(bindings))
             /\ TexTextGui = (IF TOOLKIT = TK THEN "TexTextGuiTK"
                                             ELSE "TexTextGuiGTK"))
  /\ [](phase # "import"
          => ((~GtkImports(bindings) /\ ~TkImports(bindings))
                <=> (phase = "import_failed" /\ lastOp.raised = RuntimeError)))
  /\ [][phase # "import" => TOOLKIT' = TOOLKIT]_vars

C15_Witness ==
  /\ phase = "constructed"
  /\ TOOLKIT = GTK /\ TexTextGui = "TexTextGuiGTK"
  /\ bindings["GtkSource"] = "ImportError" /\ bindings["tkinter"] = "ok"

\* C16: the GTK update_preview calls the preview callback exactly when one
\* was supplied, with a metadata record of the current widget values, the
\* image receiver set_preview_image_from_file and the white-background
\* preference (False when the store has none).  (Fails: with a preview
\* callback supplied the handler raises AttributeError on
\* self._source_buffer and calls nothing.)
C16_PreviewArguments ==
  (IsGtk /\ lastOp.op = "update_preview")
    => /\ lastOp.raised = NoException
       /\ preview.invoked <=> preview_callback # "None"
       /\ preview.invoked
            => /\ Len(preview.args) = 3
               /\ preview.args[1].text = gtkw.tbf_texcode
               /\ preview.args[1].scale_factor = gtkw.sbn_scale
               /\ preview.args[1].tex_command = TEX_COMMANDS[gtkw.cmb_texcmd + 1]
               /\ preview.args[1].alignment = ALIGNMENT_LABELS[gtkw.cmb_align + 1]
               /\ preview.args[2] = "set_preview_image_from_file"
               /\ preview.args[3] = get(config["gui"], "white_preview_background",
                                        DEFAULT_PREVIEW_WHITE_BACKGROUND)

\* C17: a GTK update_preview whose preview callback raises lets nothing
\* escape: the message is shown in the error dialog, the main loop keeps
\* running and the convert callback is not called.  (Fails: AttributeError
\* leaves the handler before the callback is reached, and no error dialog is
\* shown.)
C17_PreviewFailureShown ==
  (IsGtk /\ lastOp.op = "update_preview" /\ preview_callback # "None"
     /\ lastOp.will \in Messages)
    => /\ lastOp.raised = NoException
       /\ lastOp.shown.kind = "error_dialog"
       /\ lastOp.shown.text = lastOp.will
       /\ ~lastOp.invoked
       /\ phase = "running"

(***************************************************************************)
(* The preference callbacks of TexTextGuiGTK (gui.py:919-961).  Each is    *)
(* called with the menu action that changed; a toggle action gives         *)
(* get_active(), a radio action gives get_current_value().                 *)
(***************************************************************************)
\* the values of the TabsWidth radio actions: range(2, 13, 2)
TabWidths == {2, 4, 6, 8, 10, 12}

\* the key of the "gui" section a menu action is stored under
PrefKey ==
  [ShowNumbers |-> "line_numbers", AutoIndent |-> "auto_indent",
   InsertSpaces |-> "insert_spaces", WordWrap |-> "word_wrap",
   WhitePreviewBackground |-> "white_preview_background",
   TabsWidth |-> "tab_width", NewNodeContent |-> "new_node_content",
   FontSize |-> "font_size", CloseShortcut |-> "close_shortcut",
   ConfirmClose |-> "confirm_close"]

\* callbacks that store the first entry of the enumeration, whatever the
\* radio action selects
PrefValueFirst(control, v) ==
  IF control = "NewNodeContent" THEN NEW_NODE_CONTENT[1]
  ELSE IF control = "FontSize" THEN FONT_SIZE[1]
  ELSE IF control = "CloseShortcut" THEN CLOSE_SHORTCUT[1]
  ELSE v

\* what a callback stores for the value v of its action
PrefValue(control, v) ==
  IF control = "NewNodeContent" THEN NEW_NODE_CONTENT[v + 1]
  ELSE IF control = "FontSize" THEN FONT_SIZE[v + 1]
  ELSE IF control = "CloseShortcut" THEN CLOSE_SHORTCUT[v + 1]
  ELSE v

\* self._config["gui"][key] = value
PrefWrite(cfg, control, v) ==
  DictSet(cfg, "gui", DictSet(cfg["gui"], PrefKey[control], PrefValue(control, v)))

GtkPrefRunning == IsGtk /\ phase = "running" /\ nEvents < MaxPrefEvents

\* a callback for action `control` with value v that sets property prop of
\* the text view to pv ("" for no property) and leaves with `raised`
PrefCallback(name, control, v, prop, pv, raised) ==
  /\ gtkw' = [gtkw EXCEPT
                !.actions = DictSet(@, control, v),
                !.sourceview = IF prop = "" THEN @ ELSE DictSet(@, prop, pv)]
  /\ config' = PrefWrite(config, control, v)
  /\ lastOp' = PlainOp(name, raised)
  /\ nEvents' = nEvents + 1
  /\ UNCHANGED <<Inputs, Apart, dlg, tkw, phase>>

GtkNumbersToggled ==
  /\ GtkPrefRunning
  /\ \E active \in BOOLEAN :
       PrefCallback("numbers_toggled_cb", "ShowNumbers", active,
                 "show_line_numbers", active, NoException)

GtkAutoIndentToggled ==
  /\ GtkPrefRunning
  /\ \E active \in BOOLEAN :
       PrefCallback("auto_indent_toggled_cb", "AutoIndent", active,
                 "auto_indent", active, NoException)

GtkInsertSpacesToggled ==
  /\ GtkPrefRunning
  /\ \E active \in BOOLEAN :
       PrefCallback("insert_spaces_toggled_cb", "InsertSpaces", active,
                 "insert_spaces_instead_of_tabs", active, NoException)

GtkPreviewBackgroundChanged ==
  /\ GtkPrefRunning
  /\ \E active \in BOOLEAN :
       PrefCallback("on_preview_background_chagned", "WhitePreviewBackground",
                 active, "", active, NoException)

GtkTabsToggled ==
  /\ GtkPrefRunning
  /\ \E width \in TabWidths :
       PrefCallback("tabs_toggled_cb", "TabsWidth", width, "tab_width", width,
                 NoException)

GtkNewNodeContent ==
  /\ GtkPrefRunning
  /\ \E v \in 0..(Len(NEW_NODE_CONTENT) - 1) :
       PrefCallback("new_node_content_cb", "NewNodeContent", v, "", v, NoException)

\* font_size_cb also sets the font of the text view
GtkFontSize ==
  /\ GtkPrefRunning
  /\ \E v \in 0..(Len(FONT_SIZE) - 1) :
       PrefCallback("font_size_cb", "FontSize", v, "font", FONT_SIZE[v + 1],
                 NoException)

\* close_shortcut_cb stores the shortcut and then reads self._cancel_button
GtkCloseShortcut ==
  /\ GtkPrefRunning
  /\ \E v \in 0..(Len(CLOSE_SHORTCUT) - 1) :
       PrefCallback("close_shortcut_cb", "CloseShortcut", v, "", v,
                 GtkGetAttr("_cancel_button"))

GtkConfirmCloseToggled ==
  /\ GtkPrefRunning
  /\ \E active \in BOOLEAN :
       PrefCallback("confirm_close_toggled_cb", "ConfirmClose", active, "",
                 active, NoException)

\* a dialog on one node, without preview callback
InitPrefs ==
  /\ Init
  /\ node_meta_data = [text |-> "x", scale_factor |-> <<1, -1>>,
                       alignment |-> "middle center", preamble |-> "p.tex",
                       stroke_to_path |-> FALSE, tex_command |-> "xelatex"]
  /\ preview_callback = "None"

NextPrefs ==
  \/ GtkShow
  \/ GtkNumbersToggled \/ GtkAutoIndentToggled \/ GtkInsertSpacesToggled
  \/ GtkWordWrapToggled \/ GtkPreviewBackgroundChanged \/ GtkTabsToggled
  \/ GtkNewNodeContent \/ GtkFontSize \/ GtkCloseShortcut
  \/ GtkConfirmCloseToggled

SpecPrefs == InitPrefs /\ [][NextPrefs]_vars

\* C18: after any runs of the GTK preference callbacks, the key of every
\* menu action a callback has run for holds the latest value of that action
\* (for new_node_content, font_size and close_shortcut the entry of
\* NEW_NODE_CONTENT, FONT_SIZE, CLOSE_SHORTCUT the action selects), and every
\* other key of the "gui" section is as the store was given.
C18_PreferencesWritten ==
  IsGtk =>
    /\ \A control \in DOMAIN gtkw.actions :
         /\ has_key(config["gui"], PrefKey[control])
         /\ config["gui"][PrefKey[control]] =
              (IF control = "NewNodeContent"
               THEN NEW_NODE_CONTENT[gtkw.actions[control] + 1]
               ELSE IF control = "FontSize"
               THEN FONT_SIZE[gtkw.actions[control] + 1]
               ELSE IF control = "CloseShortcut"
               THEN CLOSE_SHORTCUT[gtkw.actions[control] + 1]
               ELSE gtkw.actions[control])
    /\ \A k \in DOMAIN config["gui"] :
         \/ \E control \in DOMAIN gtkw.actions : PrefKey[control] = k
         \/ /\ has_key(InitConfig(config_in)["gui"], k)
            /\ config["gui"][k] = InitConfig(config_in)["gui"][k]
    /\ has_key(config["gui"], "new_node_content")
         => InList(config["gui"]["new_node_content"], NEW_NODE_CONTENT)
    /\ has_key(config["gui"], "font_size")
         => InList(config["gui"]["font_size"], FONT_SIZE)
    /\ has_key(config["gui"], "close_shortcut")
         => InList(config["gui"]["close_shortcut"], CLOSE_SHORTCUT)

C18_Witness ==
  /\ IsGtk /\ lastOp.op = "close_shortcut_cb"
  /\ config["gui"]["close_shortcut"] = "CtrlQ"
  /\ has_key(config["gui"], "font_size") /\ config["gui"]["font_size"] = 14
  /\ has_key(config_in, "gui") /\ has_key(config["gui"], "word_wrap")

(***************************************************************************)
(* The scale field of the Tk dialog under its key validation               *)
(* (gui.py:194-218, 273-279): every edit, with the call of                 *)
(* validate_spinbox_input that decides it.                                 *)
(***************************************************************************)
\* the call Tk makes for an edit: d is 1 for an insertion and 0 for a
\* deletion, i the index, P the content the edit would leave, s the content
\* before, S the text inserted or deleted
ValidatorCall(d, i, P, s, S) ==
  [called |-> TRUE, d |-> d, i |-> i, P |-> P, s |-> s, S |-> S,
   valid |-> validate_spinbox_input(P, S)]

\* the user types or pastes S at index i of the scale field
TkValidatedInsert ==
  /\ IsTk /\ phase = "running"
  /\ \E i \in 0..Len(tkw.scale), S \in InsertStrings :
       /\ Len(tkw.scale) + Len(S) <= MaxLen
       /\ validation' = ValidatorCall(1, i,
                          SubSeq(tkw.scale, 1, i) \o S
                            \o SubSeq(tkw.scale, i + 1, Len(tkw.scale)),
                          tkw.scale, S)
       /\ tkw' = [tkw EXCEPT !.scale = ScaleInsert(tkw.scale, i, S)]
  /\ lastOp' = PlainOp("scale_insert", NoException)
  /\ UNCHANGED <<Inputs, config, dlg, gtkw, phase, nEvents,
                 bindings, returned, preview>>

\* the user deletes the characters i+1..j of the scale field
TkValidatedDelete ==
  /\ IsTk /\ phase = "running"
  /\ \E i \in 0..Len(tkw.scale), j \in 1..Len(tkw.scale) :
       /\ i < j
       /\ validation' = ValidatorCall(0, i,
                          SubSeq(tkw.scale, 1, i)
                            \o SubSeq(tkw.scale, j + 1, Len(tkw.scale)),
                          tkw.scale, SubSeq(tkw.scale, i + 1, j))
       /\ tkw' = [tkw EXCEPT !.scale = ScaleDelete(tkw.scale, i, j)]
  /\ lastOp' = PlainOp("scale_delete", NoException)
  /\ UNCHANGED <<Inputs, config, dlg, gtkw, phase, nEvents,
                 bindings, returned, preview>>

\* a Tk dialog on one node
InitValidate ==
  /\ Init
  /\ IsTk
  /\ node_meta_data = [text |-> "x", scale_factor |-> <<1, -1>>,
                       alignment |-> "middle center", preamble |-> "p.tex",
                       stroke_to_path |-> FALSE, tex_command |-> "xelatex"]
  /\ config_in = EmptyDict

NextValidate == TkShow \/ TkValidatedInsert \/ TkValidatedDelete

SpecValidate == InitValidate /\ [][NextValidate]_vars

\* C19: validate_spinbox_input accepts an edit of the scale field exactly
\* when the content it would leave is empty or parses as a float; the field
\* takes the new content when the edit is accepted and keeps the old one
\* when it is rejected, and so never holds a non-empty content that does not
\* parse.
C19_ValidatorAcceptsFloats ==
  /\ validation.called
       => /\ validation.S # <<>>
          /\ validation.valid
               <=> (validation.P = <<>> \/ PyFloat(validation.P) # "ValueError")
          /\ tkw.scale = (IF validation.P = <<>>
                             \/ PyFloat(validation.P) # "ValueError"
                          THEN validation.P ELSE validation.s)
  /\ (IsTk /\ phase = "running")
       => (tkw.scale = <<>> \/ PyFloat(tkw.scale) # "ValueError")

C19_Witness ==
  /\ validation.called /\ validation.d = 1
  /\ validation.s = <<"1">> /\ validation.S = <<"e">>
  /\ validation.P = <<"1", "e">>
  /\ ~validation.valid
  /\ tkw.scale = <<"1">>

(***************************************************************************)
(* The preview image of TexTextGuiGTK (gui.py:1091-1163).                  *)
(***************************************************************************)
max_preview_height == 150

\* sizes <<width, height>> of the images the preview callback hands over
ImageSizes ==
  {<<w, h>> : w \in {1, 2, 250, 499, 500, 501, 750, 1000, 1500, 2000},
              h \in {1, 2, 75, 149, 150, 151, 225, 300, 450, 600}}

\* widths the text view is allocated
TextviewWidths == {1, 250, 500}

\* int(length * scale) for the scale num / den: where the product is a whole
\* number, the rounding of the two float operations can leave it just below
\* that number
ScaledLengths(length, num, den) ==
  LET exact == (length * num) \div den
  IN  IF (length * num) % den = 0 /\ exact > 0
      THEN {exact, exact - 1}
      ELSE {exact}

\* set_scaled_preview: the sizes the image can be displayed at
set_scaled_preview(image_width, image_height, textview_width) ==
  LET by_width == image_width > textview_width
      by_height == image_height > max_preview_height
      width_is_min == by_width /\ (by_height =>
                        textview_width * image_height
                          <= max_preview_height * image_width)
      num == IF width_is_min THEN textview_width ELSE max_preview_height
      den == IF width_is_min THEN image_width ELSE image_height
  IN  IF ~by_width /\ ~by_height
      THEN {<<image_width, image_height>>}
      ELSE {<<w, h>> : w \in ScaledLengths(image_width, num, den),
                       h \in ScaledLengths(image_height, num, den)}

\* what update_preview_representation raises before it displays anything:
\* it reads self._source_view, self._pixbuf and self.preview_representation
UpdateRepresentationRaises(pv) ==
  IF GtkGetAttr("_source_view") # NoException THEN GtkGetAttr("_source_view")
  ELSE IF ~pv.has_pixbuf \/ pv.representation = "unset" THEN AttributeError
  ELSE NoException

\* set_scroll_preview: the image at its own size, with the tooltip where it
\* does not fit
ScrollPreview(pv, textview_width) ==
  LET scroll_bar_width == 30
      preview_area_height ==
        IF pv.pixbuf[1] + scroll_bar_width >= textview_width
        THEN pv.pixbuf[2] + scroll_bar_width ELSE pv.pixbuf[2]
  IN  [pv EXCEPT !.textview_width = textview_width,
                 !.displayed = TRUE, !.size = pv.pixbuf,
                 !.has_tooltip = @ \/ preview_area_height > max_preview_height
                                   \/ pv.pixbuf[1] > textview_width]

\* TexTextGuiGTK.update_preview_representation in fit mode, on an image of
\* the given size
UpdatePreviewRepresentation(pv, op, args) ==
  IF UpdateRepresentationRaises(pv) # NoException
  THEN /\ preview' = pv
       /\ lastOp' = Op(op, UpdateRepresentationRaises(pv), <<>>, Returns,
                       FALSE, args, NoDialog)
  ELSE /\ \E textview_width \in TextviewWidths :
            IF pv.representation = "SCROLL"
            THEN preview' = ScrollPreview(pv, textview_width)
            ELSE \E shown \in set_scaled_preview(pv.pixbuf[1], pv.pixbuf[2],
                                                 textview_width) :
                   preview' = [pv EXCEPT !.textview_width = textview_width,
                                         !.displayed = TRUE, !.size = shown,
                                         !.has_tooltip = @ \/ shown # pv.pixbuf]
       /\ lastOp' = Op(op, NoException, <<>>, Returns, FALSE, args, NoDialog)

\* TexTextGuiGTK.set_preview_image_from_file, the image receiver: it sets
\* self._pixbuf and then reads self._preview_scroll_window
GtkSetPreviewImageFromFile ==
  /\ IsGtk /\ phase = "running"
  /\ \E image \in ImageSizes :
       LET pv == [preview EXCEPT !.has_pixbuf = TRUE, !.pixbuf = image]
       IN  IF GtkGetAttr("_preview_scroll_window") # NoException
           THEN /\ preview' = pv
                /\ lastOp' = PlainOp("set_preview_image_from_file",
                                     GtkGetAttr("_preview_scroll_window"))
           ELSE UpdatePreviewRepresentation(
                  [pv EXCEPT !.has_tooltip = FALSE],
                  "set_preview_image_from_file", <<>>)
  /\ UNCHANGED <<Inputs, config, dlg, tkw, gtkw, phase, nEvents,
                 bindings, returned, validation>>

\* TexTextGuiGTK.update_preview_representation, called on its own
GtkUpdatePreviewRepresentation ==
  /\ IsGtk /\ phase = "running"
  /\ UpdatePreviewRepresentation(preview, "update_preview_representation", <<>>)
  /\ UNCHANGED <<Inputs, config, dlg, tkw, gtkw, phase, nEvents,
                 bindings, returned, validation>>

\* the mouse buttons and the kinds of button event the preview receives
MouseButtons == {1, 2, 3}
ButtonEvents == {"BUTTON_PRESS", "DOUBLE_BUTTON_PRESS", "TRIPLE_BUTTON_PRESS"}

\* the mode a left double click on a preview with a tooltip changes to
SwitchedRepresentation(representation) ==
  IF representation = "SCALE" THEN "SCROLL" ELSE "SCALE"

\* TexTextGuiGTK.switch_preview_representation for a button event on the
\* preview: a left double click reads self.preview_representation
GtkSwitchPreviewRepresentation ==
  /\ IsGtk /\ phase = "running"
  /\ \E button \in MouseButtons, type \in ButtonEvents :
       IF button = 1 /\ type = "DOUBLE_BUTTON_PRESS"
       THEN IF preview.representation = "unset"
               \/ GtkGetAttr("_preview_scroll_window") # NoException
            THEN /\ preview' = preview
                 /\ lastOp' = Op("switch_preview_representation",
                                 AttributeError, <<>>, Returns, FALSE,
                                 <<button, type>>, NoDialog)
            ELSE UpdatePreviewRepresentation(
                   IF preview.has_tooltip
                   THEN [preview EXCEPT !.representation =
                                          SwitchedRepresentation(@)]
                   ELSE preview,
                   "switch_preview_representation", <<button, type>>)
       ELSE /\ preview' = preview
            /\ lastOp' = Op("switch_preview_representation", NoException,
                            <<>>, Returns, FALSE, <<button, type>>, NoDialog)
  /\ UNCHANGED <<Inputs, config, dlg, tkw, gtkw, phase, nEvents,
                 bindings, returned, validation>>

\* a GTK dialog on one node
InitPreview ==
  /\ Init
  /\ IsGtk
  /\ node_meta_data = [text |-> "x", scale_factor |-> <<1, -1>>,
                       alignment |-> "middle center", preamble |-> "p.tex",
                       stroke_to_path |-> FALSE, tex_command |-> "xelatex"]
  /\ config_in = EmptyDict

NextPreview ==
  \/ GtkShow \/ GtkSetPreviewImageFromFile \/ GtkUpdatePreviewRepresentation
  \/ GtkSwitchPreviewRepresentation

SpecPreview == InitPreview /\ [][NextPreview]_vars

\* C20: once the image receiver has been given an image, the preview shows
\* it at its own size when that is within the text view's width and the
\* height of 150, and otherwise scaled down by one factor for both sides,
\* never wider than the text view and never higher than 150.  (Fails:
\* set_preview_image_from_file raises AttributeError on
\* self._preview_scroll_window and nothing is displayed.)
C20_FitModeBounds ==
  (IsGtk /\ lastOp.op = "set_preview_image_from_file")
    => /\ lastOp.raised = NoException
       /\ preview.displayed
       /\ preview.size[1] <= preview.pixbuf[1]
       /\ preview.size[2] <= preview.pixbuf[2]
       /\ preview.size[1] <= preview.textview_width
       /\ preview.size[2] <= max_preview_height
       /\ (preview.pixbuf[1] <= preview.textview_width
             /\ preview.pixbuf[2] <= max_preview_height)
            => preview.size = preview.pixbuf

\* C21: a new dialog previews in fit mode ("SCALE"), and a left double click
\* on the preview leaves the mode switched between "SCALE" and "SCROLL"
\* without an error.  (Fails: no statement assigns
\* self.preview_representation, so there is no mode to start in and the
\* double click raises AttributeError at the first read of it.)
C21_PreviewModeToggles ==
  (IsGtk /\ lastOp.op = "switch_preview_representation"
     /\ lastOp.args = <<1, "DOUBLE_BUTTON_PRESS">>)
    => /\ lastOp.raised = NoException
       /\ preview.representation \in {"SCALE", "SCROLL"}

(***************************************************************************)
(* The keyboard shortcuts of TexTextGuiGTK (gui.py:964-991).               *)
(***************************************************************************)
DEFAULT_CLOSE_SHORTCUT == "Escape"

\* Gdk.keyval_name(event.keyval) of the keys pressed
KeyNames == {"Return", "p", "q", "Escape", "a"}

\* the button whose clicked() cb_key_press calls for a key event, "" for none
KeyButton(cfg, key, ctrl_is_pressed) ==
  LET close_shortcut_value ==
        get(cfg["gui"], "close_shortcut", DEFAULT_CLOSE_SHORTCUT)
  IN  IF key = "Return" /\ ctrl_is_pressed THEN "_ok_button"
      ELSE IF key = "p" /\ ctrl_is_pressed THEN "_preview_button"
      ELSE IF \/ (close_shortcut_value = "Escape" /\ key = "Escape")
              \/ (close_shortcut_value = "CtrlQ" /\ key = "q" /\ ctrl_is_pressed)
      THEN "_cancel_button"
      ELSE ""

\* TexTextGuiGTK.cb_key_press for a key event: args holds the key, the state
\* of the control key, the button clicked and what the handler returns
GtkCbKeyPress ==
  /\ IsGtk /\ phase = "running"
  /\ \E key \in KeyNames, ctrl_is_pressed \in BOOLEAN :
       LET button == KeyButton(config, key, ctrl_is_pressed)
       IN  IF button = ""
           THEN lastOp' = Op("cb_key_press", NoException, <<>>, Returns, FALSE,
                             <<key, ctrl_is_pressed, "", "False">>, NoDialog)
           ELSE IF GtkGetAttr(button) # NoException
           THEN lastOp' = Op("cb_key_press", GtkGetAttr(button), <<>>, Returns,
                             FALSE, <<key, ctrl_is_pressed, "", "raised">>,
                             NoDialog)
           ELSE lastOp' = Op("cb_key_press", NoException, <<>>, Returns, FALSE,
                             <<key, ctrl_is_pressed, button, "True">>, NoDialog)
  /\ UNCHANGED <<Inputs, Apart, config, dlg, tkw, gtkw, phase, nEvents>>

NextKeys == GtkShow \/ GtkCloseShortcut \/ GtkCbKeyPress

SpecKeys == InitPrefs /\ [][NextKeys]_vars

\* C22: cb_key_press returns True exactly when it has clicked a button, and
\* it clicks the OK button on Control+Return, the preview button on Control+p
\* and the cancel button on the shortcut stored under gui.close_shortcut
\* ("Escape" when nothing is stored).  (Fails: the three buttons are never
\* assigned to self, so each shortcut raises AttributeError.)
C22_KeyPressShortcuts ==
  (IsGtk /\ lastOp.op = "cb_key_press")
    => LET key == lastOp.args[1]
           ctrl == lastOp.args[2]
           clicked == lastOp.args[3]
           result == lastOp.args[4]
           shortcut == get(config["gui"], "close_shortcut", "Escape")
       IN  /\ lastOp.raised = NoException
           /\ result = "True" <=> clicked # ""
           /\ (key = "Return" /\ ctrl) => clicked = "_ok_button"
           /\ (key = "p" /\ ctrl) => clicked = "_preview_button"
           /\ clicked = "_cancel_button"
                => \/ (shortcut = "Escape" /\ key = "Escape")
                   \/ (shortcut = "CtrlQ" /\ key = "q" /\ ctrl)
           /\ (shortcut = "Escape" /\ key = "Escape" /\ ~ctrl)
                => clicked = "_cancel_button"
           /\ (shortcut = "CtrlQ" /\ key = "q" /\ ctrl)
                => clicked = "_cancel_button"

(***************************************************************************)
(* The position label of TexTextGuiGTK (gui.py:855-880).                   *)
(***************************************************************************)
\* the characters of a line of the text buffer: a tab and a letter
LineChars == {"\t", "a"}

\* the line the caret is in
Lines == UNION {[1..n -> LineChars] : n \in 0..MaxLen}

\* what view.get_tab_width() gives
ViewTabWidths == {2, 4, 8}

\* the lines before the caret's line, each "a" and a newline
LinesBefore == {0, 1}

\* col after the loop has walked the characters from index k to the caret
RECURSIVE WalkColumn(_, _, _, _, _)
WalkColumn(line, k, caret, tabwidth, col) ==
  IF k > caret THEN col
  ELSE WalkColumn(line, k + 1, caret, tabwidth,
                  IF line[k] = "\t"
                  THEN col + (tabwidth - (col % tabwidth))
                  ELSE col + 1)

\* the numbers update_position_label formats: char, line and, with the
\* source view, column
PositionText(toolkit, line, caret, line_index, tabwidth) ==
  LET nchars == 2 * line_index + caret
      row == line_index + 1
  IN  IF toolkit = GTKSOURCEVIEW
      THEN <<nchars, row, WalkColumn(line, 1, caret, tabwidth, 0) + 1>>
      ELSE <<nchars, row>>

\* TexTextGuiGTK.update_position_label(text_buffer, asktext, view) with the
\* dialog as asktext: after the walk it reads asktext.pos_label
GtkUpdatePositionLabel ==
  /\ IsGtk /\ phase = "running"
  /\ \E line \in Lines, line_index \in LinesBefore, tabwidth \in ViewTabWidths :
       \E caret \in 0..Len(line) :
         /\ lastOp' = Op("update_position_label", GtkGetAttr("pos_label"),
                         <<>>, Returns, FALSE,
                         <<line, caret, line_index, tabwidth>>, NoDialog)
         /\ gtkw' = IF GtkGetAttr("pos_label") # NoException THEN gtkw
                    ELSE [gtkw EXCEPT !.pos_label =
                            PositionText(TOOLKIT, line, caret, line_index,
                                         tabwidth)]
  /\ UNCHANGED <<Inputs, Apart, config, dlg, tkw, phase, nEvents>>

NextPosition == GtkShow \/ GtkUpdatePositionLabel

SpecPosition == InitPreview /\ [][NextPosition]_vars

\* C23: with the source view, update_position_label writes to the position
\* label the 0-based line index plus one and a 1-based column in which each
\* tab before the caret advances to the next multiple of the tab width and
\* every other character advances by one.  (Fails: the label is read from
\* asktext.pos_label, which is never assigned, so AttributeError is raised
\* after the walk and nothing is written.)
C23_PositionLabelColumn ==
  (TOOLKIT = GTKSOURCEVIEW /\ lastOp.op = "update_position_label")
    => LET line == lastOp.args[1]
           caret == lastOp.args[2]
           line_index == lastOp.args[3]
           tabwidth == lastOp.args[4]
       IN  /\ lastOp.raised = NoException
           /\ Len(gtkw.pos_label) = 3
           /\ gtkw.pos_label[2] = line_index + 1
           /\ gtkw.pos_label[3] >= 1
           /\ caret = 0 => gtkw.pos_label[3] = 1
           /\ (caret > 0 /\ line[caret] = "\t")
                => (gtkw.pos_label[3] - 1) % tabwidth = 0
           /\ (\A k \in 1..caret : line[k] # "\t")
                => gtkw.pos_label[3] = caret + 1

(***************************************************************************)
(* The scale buttons.                                                      *)
(***************************************************************************)
\* C24: whenever it runs, "Reset" sets the scale field to the scale factor
\* of the node and "As previous" sets it to the scale factor the
\* configuration store held at construction (1.0 when it held none), the
\* value on the button's label.  (Fails: the Tk cb_ok stores the parsed
\* scale field in self.global_scale_factor before it calls the convert
\* callback, so after a confirm that failed "As previous" inserts the value
\* just tried.)
C24_ScaleButtons ==
  /\ (IsTk /\ lastOp.op = "reset_scale_factor")
       => PyFloat(tkw.scale) = node_meta_data.scale_factor
  /\ (IsTk /\ lastOp.op = "use_global_scale_factor")
       => /\ PyFloat(tkw.scale) = get(config_in, "scale", <<1, 0>>)
          /\ PyFloat(tkw.scale) = PyFloat(tkw.global_label)
  /\ (IsGtk /\ lastOp.op = "on_btn_scalereset_clicked")
       => gtkw.sbn_scale = node_meta_data.scale_factor
  /\ (IsGtk /\ lastOp.op = "on_btn_scaleprevious_clicked")
       => gtkw.sbn_scale = get(config_in, "scale", <<1, 0>>)

(***************************************************************************)
(* What the Tk handlers leave alone.                                       *)
(***************************************************************************)
\* C25: a Tk cb_ok on a scale field that does not parse as a float leaves
\* the attributes of the dialog (text, preamble file, stroke-to-path flag,
\* global scale factor) and the configuration store as they were.
C25_FailedParseKeepsState ==
  [][(IsTk /\ lastOp'.op = "cb_ok" /\ nEvents' = nEvents + 1
        /\ PyFloat(tkw.scale) = "ValueError")
       => (dlg' = dlg /\ config' = config)]_vars

C25_Witness ==
  /\ IsTk /\ lastOp.op = "cb_ok" /\ lastOp.shown = ScaleErrorBox
  /\ tkw.text_box = "y" /\ dlg.text = "x"
  /\ dlg = BaseInit(node_meta_data, config_in)

\* C26: select_preamble_file leaves the preamble field as it was when the
\* file dialog gives an empty name, and otherwise sets it to the name the
\* dialog gives.  (Fails: the handler tests the name against None, so the
\* empty name of a dismissed dialog replaces the content of the field.)
C26_DismissedKeepsPreamble ==
  [][(IsTk /\ lastOp'.op = "select_preamble_file" /\ nEvents' = nEvents + 1)
       => tkw'.preamble = IF lastOp'.args[1] = "" THEN tkw.preamble
                          ELSE lastOp'.args[1]]_vars

(***************************************************************************)
(* The "Reset" button of the Tk dialog over the scale factors a node can   *)
(* carry (gui.py:278-286, 398-400).                                        *)
(***************************************************************************)
\* nodes with text whose scale factor is zero or 0.1
ScaleNodes ==
  [text : {"x"},
   scale_factor : {<<0, 0>>, <<1, -1>>},
   alignment : {"middle center"},
   preamble : {"p.tex"},
   stroke_to_path : {FALSE},
   tex_command : {"xelatex"}]

\* a Tk dialog constructed on one of these nodes
InitScale ==
  /\ bindings \in SessionBindings
  /\ TOOLKIT = ImportToolkit(bindings)
  /\ IsTk
  /\ node_meta_data \in ScaleNodes
  /\ config_in \in Configs
  /\ config = InitConfig(config_in)
  /\ dlg = BaseInit(node_meta_data, config_in)
  /\ tkw = TkUnset
  /\ gtkw = GtkUnset
  /\ preview_callback = "None"
  /\ phase = "constructed"
  /\ lastOp = PlainOp("__init__", NoException)
  /\ nEvents = 0
  /\ returned = NotReturned
  /\ validation = NoValidation
  /\ preview = NoPreview

NextScale ==
  \/ TkShow \/ TkScaleInsert \/ TkScaleDelete \/ TkCbOk
  \/ TkResetScaleFactor \/ TkUseGlobalScaleFactor

SpecScale == InitScale /\ [][NextScale]_vars

\* C27: after "Reset" has been pressed the scale field holds the value that
\* the label of the button shows.  (Fails: for a node scale factor of zero
\* the label shows the global scale factor, and the button inserts the
\* zero.)
C27_ResetLabelIsResetValue ==
  (IsTk /\ lastOp.op = "reset_scale_factor")
    => PyFloat(tkw.scale) = PyFloat(tkw.reset_label)

\* C28: in a Tk session the configuration store is, after construction, the
\* store that was given with an empty "gui" section added where it had none,
\* and the only handler that changes it afterwards is cb_word_wrap, which
\* sets gui.word_wrap and nothing else.
C28_TkConfigWrites ==
  /\ [](IsTk /\ phase = "constructed"
          => /\ has_key(config, "gui")
             /\ has_key(config_in, "gui") => config = config_in
             /\ ~has_key(config_in, "gui")
                  => /\ config["gui"] = EmptyDict
                     /\ DOMAIN config = DOMAIN config_in \cup {"gui"}
                     /\ \A k \in DOMAIN config_in : config[k] = config_in[k])
  /\ [][IsTk
          => \/ config' = config
             \/ /\ lastOp'.op = "cb_word_wrap"
                /\ DOMAIN config' = DOMAIN config
                /\ \A k \in DOMAIN config \ {"gui"} : config'[k] = config[k]
                /\ DOMAIN config'["gui"] = DOMAIN config["gui"] \cup {"word_wrap"}
                /\ \A k \in DOMAIN config["gui"] \ {"word_wrap"} :
                     config'["gui"][k] = config["gui"][k]]_vars

C28_Witness ==
  /\ IsTk /\ lastOp.op = "cb_ok" /\ lastOp.invoked
  /\ has_key(config, "scale") /\ config["scale"] # dlg.global_scale_factor
  /\ has_key(config_in, "gui") /\ ~has_key(config_in["gui"], "word_wrap")
  /\ has_key(config["gui"], "word_wrap")

=============================================================================
